---- MODULE Spec2Model ----
(***************************************************************************)
(* Model of the Swift lexer, lib/Parse/Lexer.cpp.                          *)
(*                                                                         *)
(* Characters are their ASCII codes.  A pointer into the buffer is its     *)
(* offset from Buffer->getBufferStart(): BufferStart is 0 and BufferEnd is *)
(* the buffer length, the position of the nul sentinel llvm::MemoryBuffer  *)
(* keeps after the contents.  Memory is a sequence: the byte at pointer p  *)
(* is mem[p+1].                                                            *)
(***************************************************************************)
EXTENDS Integers, Sequences, FiniteSets, TLC

\* Longest buffer drawn exhaustively from Alphabet; the buffers one longer
\* are drawn from CoreAlphabet.
MaxLen == 3
\* Number of bytes of memory modelled from BufferStart on: the buffer, its
\* sentinel and the bytes behind it.  Behind the sentinel of a buffer that
\* fills the modelled memory one byte is modelled all the same.
MaxMem == 4

\* Characters the exhaustive buffers are made of:
\* nul ' ' '\n' '/' ':' '=' 'a' '1' '@' '$'
Alphabet == {0, 32, 10, 47, 58, 61, 97, 49, 64, 36}

\* Characters the buffers of length MaxLen + 1 are made of:
\* nul '\n' '/' 'a' '@'
CoreAlphabet == {0, 10, 47, 97, 64}

\* Values a byte behind the end sentinel may hold.  The lexer tells bytes
\* apart by the case of the switch they select and by the tests of the
\* sub-scanners; there is one value for every such class:
\*   nul | ' ' (and '\t') | '\n' (and '\r') | ( ) { } [ ] . , ; | ':' | '/'
\*   | '=' | '-' | '>' | '+' (and * % < ! & | ^) | 'a' 'v' 'r' (letters and
\*   '_'; "var" is the shortest reserved word) | '$' | '1' (digits)
\*   | '@' (every byte of the default case, those above 0x7f included)
TailAlphabet ==
  {0, 32, 10, 40, 41, 123, 125, 91, 93, 46, 44, 59, 58, 47, 61, 45, 62, 43,
   97, 118, 114, 36, 49, 64}

\* Longer buffers: "// comment\nfoo", "123abc", "//a\rb", "$a1 ->",
\* "a\tb(){}[].,;", "#?@", "a\0//\0b",
\* "func var struct typealias oneof __builtin_int32_type funct Var _func",
\* "var", "$func a$b $", "+// x\n", "=//a", "::::", ":::::",
\* "== += << => ->> / < = ->", "//\0a\nb"
SampleBuffers ==
  { <<47, 47, 32, 99, 111, 109, 109, 101, 110, 116, 10, 102, 111, 111>>,
    <<49, 50, 51, 97, 98, 99>>,
    <<47, 47, 97, 13, 98>>,
    <<36, 97, 49, 32, 45, 62>>,
    <<97, 9, 98, 40, 41, 123, 125, 91, 93, 46, 44, 59>>,
    <<35, 63, 64>>,
    <<97, 0, 47, 47, 0, 98>>,
    <<102, 117, 110, 99, 32, 118, 97, 114, 32, 115, 116, 114, 117, 99,
      116, 32, 116, 121, 112, 101, 97, 108, 105, 97, 115, 32, 111,
      110, 101, 111, 102, 32, 95, 95, 98, 117, 105, 108, 116, 105,
      110, 95, 105, 110, 116, 51, 50, 95, 116, 121, 112, 101, 32, 102,
      117, 110, 99, 116, 32, 86, 97, 114, 32, 95, 102, 117, 110, 99>>,
    <<118, 97, 114>>,
    <<36, 102, 117, 110, 99, 32, 97, 36, 98, 32, 36>>,
    <<43, 47, 47, 32, 120, 10>>,
    <<61, 47, 47, 97>>,
    <<58, 58, 58, 58>>,
    <<58, 58, 58, 58, 58>>,
    <<61, 61, 32, 43, 61, 32, 60, 60, 32, 61, 62, 32, 45, 62, 62, 32,
      47, 32, 60, 32, 61, 32, 45, 62>>,
    <<47, 47, 0, 97, 10, 98>> }

Inputs ==
  UNION { [1..n -> Alphabet] : n \in 0..MaxLen }
    \cup [1..(MaxLen + 1) -> CoreAlphabet]
    \cup SampleBuffers

\* What may lie behind the end sentinel when up to n bytes of it are
\* modelled: any number of readable bytes from none to n, each of any value,
\* and unreadable memory behind them.
Tails(n) == UNION { [1..k -> TailAlphabet] : k \in 0..n }

\* Longer layouts of the memory behind the end sentinel: the reserved words
\* "func ", "oneof(", "struct ", "typealias ", "__builtin_int32_type ",
\* "var\0", the tokens of more than one byte "a ", "1 ", "::", "->(",
\* the comment "//a\n(", and what lies behind a short buffer on the heap:
\* nul bytes, the header of the next block ('!', 0x21), nul bytes, a byte
\* of the default case
SampleTails ==
  { <<102, 117, 110, 99, 32>>,
    <<111, 110, 101, 111, 102, 40>>,
    <<115, 116, 114, 117, 99, 116, 32>>,
    <<116, 121, 112, 101, 97, 108, 105, 97, 115, 32>>,
    <<95, 95, 98, 117, 105, 108, 116, 105, 110, 95, 105, 110, 116, 51, 50,
      95, 116, 121, 112, 101, 32>>,
    <<118, 97, 114, 0>>,
    <<97, 32>>,
    <<49, 32>>,
    <<58, 58>>,
    <<45, 62, 40>>,
    <<47, 47, 97, 10, 40>>,
    <<0, 0, 0, 0, 0, 0, 0, 33, 0, 0, 0, 0, 0, 0, 0, 64>>,
    <<0, 0, 0, 0, 0, 0, 33, 0, 0, 0, 0, 0, 0, 0, 64>> }

(***************************************************************************)
(* Memory access.                                                          *)
(***************************************************************************)
InMem(mem, p) == p >= 0 /\ p < Len(mem)
At(mem, p) == mem[p + 1]

\* <ctype.h>, "C" locale
isdigit(c) == c >= 48 /\ c <= 57
isalpha(c) == (c >= 65 /\ c <= 90) \/ (c >= 97 /\ c <= 122)
isalnum(c) == isalpha(c) \/ isdigit(c)

\* A read outside the memory handed to the call, a failed assert in a build
\* with asserts, or a source manager that does not come back: the call is
\* followed no further.
Fault(st, what) == [st EXCEPT !.Fault = what]

\* llvm::SourceMgr::PrintMessage(Loc, Message, Kind); st.Diags is what the
\* source manager has been handed.  A location behind BufferEnd lies in no
\* buffer of the source manager: it is outside the contract of
\* PrintMessage, which then either prints all the same or does not come
\* back (st.SMFaults).
PrintMessage(st, Loc, Message, Kind) ==
  LET s1 == [st EXCEPT !.Diags = Append(@, [Loc |-> Loc, Message |-> Message, Kind |-> Kind])]
  IN  IF st.SMFaults /\ Loc > st.BufferEnd THEN Fault(s1, "sourcemgr") ELSE s1

\* Lexer::Warning and Lexer::Error
Warning(st, Loc, Message) == PrintMessage(st, Loc, Message, "warning")

Error(st, Loc, Message) == PrintMessage(st, Loc, Message, "error")

\* Result.setToken(Kind, StringRef(TokStart, CurPtr-TokStart))
FormToken(Kind, TokStart, st) ==
  [st EXCEPT !.Result = [Kind |-> Kind, Start |-> TokStart, Length |-> st.CurPtr - TokStart]]

NoToken == [Kind |-> "none", Start |-> 0, Length |-> 0]

(***************************************************************************)
(* Lexer subroutines.  st is the lexer during one call of Lex: the cursor, *)
(* the token being formed, the diagnostics reported, the positions read    *)
(* and the positions at which the dispatch loop (re)started.               *)
(***************************************************************************)

\* IsLineEnd without case '\r':
IsLineEnd_NoCR(c) == c = 10

\* case '\n': case '\r': of the comment skipper
IsLineEnd(c) == c = 10 \/ c = 13

\* SkipAtEnd without --CurPtr
SkipAtEnd_NoStepBack(s1) ==
  Warning(s1, s1.CurPtr - 1, "no newline at end of // comment")

\* the comment has met the nul at the end of the buffer; s1 is the lexer
\* after *CurPtr++
SkipAtEnd(s1) ==
  LET s2 == [s1 EXCEPT !.CurPtr = @ - 1]
  IN  Warning(s2, s2.CurPtr - 1, "no newline at end of // comment")

\* SkipLoop with an embedded nul ending the comment
RECURSIVE SkipLoop_NulEnds(_, _, _)
SkipLoop_NulEnds(mem, BufferEnd, st) ==
  IF st.Fault # "none"
  THEN st
  ELSE IF ~InMem(mem, st.CurPtr)
  THEN Fault([st EXCEPT !.Reads = @ \cup {st.CurPtr}], "oob")
  ELSE LET c  == At(mem, st.CurPtr)
           s1 == [st EXCEPT !.CurPtr = @ + 1, !.Reads = @ \cup {st.CurPtr}]
       IN  IF IsLineEnd(c)
           THEN s1
           ELSE IF c = 0
           THEN IF s1.CurPtr - 1 # BufferEnd
                THEN Warning(s1, s1.CurPtr - 1, "nul character embedded in middle of file")
                ELSE SkipAtEnd(s1)
           ELSE SkipLoop_NulEnds(mem, BufferEnd, s1)

\* the while(1) loop of SkipSlashSlashComment; st.CurPtr is the character
\* about to be read by *CurPtr++
RECURSIVE SkipLoop(_, _, _)
SkipLoop(mem, BufferEnd, st) ==
  IF st.Fault # "none"
  THEN st
  ELSE IF ~InMem(mem, st.CurPtr)
  THEN Fault([st EXCEPT !.Reads = @ \cup {st.CurPtr}], "oob")
  ELSE LET c  == At(mem, st.CurPtr)
           s1 == [st EXCEPT !.CurPtr = @ + 1, !.Reads = @ \cup {st.CurPtr}]
       IN  IF IsLineEnd(c)
           THEN s1
           ELSE IF c = 0
           THEN IF s1.CurPtr - 1 # BufferEnd
                THEN SkipLoop(mem, BufferEnd,
                       Warning(s1, s1.CurPtr - 1, "nul character embedded in middle of file"))
                ELSE SkipAtEnd(s1)
           ELSE SkipLoop(mem, BufferEnd, s1)

SkipSlashSlashComment(mem, BufferEnd, st) ==
  IF ~st.NDEBUG /\ ~(At(mem, st.CurPtr) = 47 /\ At(mem, st.CurPtr - 1) = 47)
  THEN Fault(st, "assert")
  ELSE SkipLoop(mem, BufferEnd, st)

\* IsIdentBody without c == '$'
IsIdentBody_NoDollar(c) == isalnum(c) \/ c = 95

\* isalnum(c) || c == '_' || c == '$'
IsIdentBody(c) == isalnum(c) \/ c = 95 \/ c = 36

\* while (isalnum(*CurPtr) || *CurPtr == '_' || *CurPtr == '$') ++CurPtr;
\* the position the loop stops at
RECURSIVE IdentBodyEnd(_, _)
IdentBodyEnd(mem, p) ==
  IF InMem(mem, p) /\ IsIdentBody(At(mem, p)) THEN IdentBodyEnd(mem, p + 1) ELSE p

\* KeywordKind with "func" matched as a prefix of the text
KeywordKind_Prefix(text) ==
  CASE text = <<95, 95, 98, 117, 105, 108, 116, 105, 110, 95, 105, 110, 116,
                51, 50, 95, 116, 121, 112, 101>>          -> "kw___builtin_int32_type"
    [] text = <<111, 110, 101, 111, 102>>                 -> "kw_oneof"
    [] text = <<115, 116, 114, 117, 99, 116>>             -> "kw_struct"
    [] text = <<118, 97, 114>>                            -> "kw_var"
    [] Len(text) >= 4 /\ SubSeq(text, 1, 4) = <<102, 117, 110, 99>> -> "kw_func"
    [] text = <<116, 121, 112, 101, 97, 108, 105, 97, 115>> -> "kw_typealias"
    [] OTHER                                              -> "identifier"

\* llvm::StringSwitch over the identifier text
KeywordKind(text) ==
  CASE text = <<95, 95, 98, 117, 105, 108, 116, 105, 110, 95, 105, 110, 116,
                51, 50, 95, 116, 121, 112, 101>>          -> "kw___builtin_int32_type"
    [] text = <<111, 110, 101, 111, 102>>                 -> "kw_oneof"
    [] text = <<115, 116, 114, 117, 99, 116>>             -> "kw_struct"
    [] text = <<118, 97, 114>>                            -> "kw_var"
    [] text = <<102, 117, 110, 99>>                       -> "kw_func"
    [] text = <<116, 121, 112, 101, 97, 108, 105, 97, 115>> -> "kw_typealias"
    [] OTHER                                              -> "identifier"

\* LexIdentifier with the text handed to the StringSwitch taken from the
\* start of the buffer
LexIdentifier_TextFromStart(mem, st) ==
  LET TokStart == st.CurPtr - 1
      stop     == IdentBodyEnd(mem, st.CurPtr)
      s1       == [st EXCEPT !.CurPtr = stop, !.Reads = @ \cup (st.CurPtr .. stop)]
  IN  IF ~st.NDEBUG /\ ~(isalpha(At(mem, TokStart)) \/ At(mem, TokStart) = 95)
      THEN Fault(st, "assert")
      ELSE IF ~InMem(mem, stop)
      THEN Fault(s1, "oob")
      ELSE FormToken(KeywordKind(SubSeq(mem, 1, stop)), TokStart, s1)

LexIdentifier(mem, st) ==
  LET TokStart == st.CurPtr - 1
      stop     == IdentBodyEnd(mem, st.CurPtr)
      s1       == [st EXCEPT !.CurPtr = stop, !.Reads = @ \cup (st.CurPtr .. stop)]
  IN  IF ~st.NDEBUG /\ ~(isalpha(At(mem, TokStart)) \/ At(mem, TokStart) = 95)
      THEN Fault(st, "assert")
      ELSE IF ~InMem(mem, stop)
      THEN Fault(s1, "oob")
      ELSE FormToken(KeywordKind(SubSeq(mem, TokStart + 1, stop)), TokStart, s1)

\* "/=-+*%<>!&|^"
PunctuatorCharacters == <<47, 61, 45, 43, 42, 37, 60, 62, 33, 38, 124, 94>>

\* strspn stopping in front of a "//"
RECURSIVE strspn_StopAtComment(_, _, _)
strspn_StopAtComment(mem, p, accept) ==
  IF InMem(mem, p) /\ At(mem, p) # 0 /\ (\E i \in DOMAIN accept : accept[i] = At(mem, p))
     /\ ~(At(mem, p) = 47 /\ InMem(mem, p + 1) /\ At(mem, p + 1) = 47)
  THEN 1 + strspn_StopAtComment(mem, p + 1, accept)
  ELSE 0

\* strspn(s, accept) with s the string at pointer p: the length of the
\* longest prefix made of characters of accept; the nul ends the string
RECURSIVE strspn(_, _, _)
strspn(mem, p, accept) ==
  IF InMem(mem, p) /\ At(mem, p) # 0 /\ (\E i \in DOMAIN accept : accept[i] = At(mem, p))
  THEN 1 + strspn(mem, p + 1, accept)
  ELSE 0

\* LexPunctuationIdentifier with "->" recognised at the head of a longer run
LexPunctuationIdentifier_ArrowPrefix(mem, st) ==
  LET TokStart == st.CurPtr - 1
      stop     == st.CurPtr + strspn(mem, st.CurPtr, PunctuatorCharacters)
      s1       == [st EXCEPT !.CurPtr = stop, !.Reads = @ \cup (st.CurPtr .. stop)]
  IN  IF ~InMem(mem, stop)
      THEN Fault(s1, "oob")
      ELSE IF s1.CurPtr - TokStart = 1 /\ At(mem, TokStart) = 61
      THEN FormToken("equal", TokStart, s1)
      ELSE IF s1.CurPtr - TokStart >= 2
              /\ At(mem, TokStart) * 256 + At(mem, TokStart + 1) = 45 * 256 + 62
      THEN FormToken("arrow", TokStart, s1)
      ELSE FormToken("identifier", TokStart, s1)

\* LexPunctuationIdentifier with a kind of its own for the other runs
LexPunctuationIdentifier_OwnKind(mem, st) ==
  LET TokStart == st.CurPtr - 1
      stop     == st.CurPtr + strspn(mem, st.CurPtr, PunctuatorCharacters)
      s1       == [st EXCEPT !.CurPtr = stop, !.Reads = @ \cup (st.CurPtr .. stop)]
  IN  IF ~InMem(mem, stop)
      THEN Fault(s1, "oob")
      ELSE IF s1.CurPtr - TokStart = 1 /\ At(mem, TokStart) = 61
      THEN FormToken("equal", TokStart, s1)
      ELSE IF s1.CurPtr - TokStart = 2
              /\ At(mem, TokStart) * 256 + At(mem, TokStart + 1) = 45 * 256 + 62
      THEN FormToken("arrow", TokStart, s1)
      ELSE FormToken("oper", TokStart, s1)

LexPunctuationIdentifier(mem, st) ==
  LET TokStart == st.CurPtr - 1
      stop     == st.CurPtr + strspn(mem, st.CurPtr, PunctuatorCharacters)
      s1       == [st EXCEPT !.CurPtr = stop, !.Reads = @ \cup (st.CurPtr .. stop)]
  IN  IF ~InMem(mem, stop)
      THEN Fault(s1, "oob")
      ELSE IF s1.CurPtr - TokStart = 1 /\ At(mem, TokStart) = 61
      THEN FormToken("equal", TokStart, s1)
      ELSE IF s1.CurPtr - TokStart = 2
              /\ At(mem, TokStart) * 256 + At(mem, TokStart + 1) = 45 * 256 + 62
      THEN FormToken("arrow", TokStart, s1)
      ELSE FormToken("identifier", TokStart, s1)

\* LexDollarIdent with the reserved-word lookup applied behind the '$'
LexDollarIdent_Lookup(mem, st) ==
  LET TokStart == st.CurPtr - 1
      stop     == IdentBodyEnd(mem, st.CurPtr)
      s1       == [st EXCEPT !.CurPtr = stop, !.Reads = @ \cup (st.CurPtr .. stop)]
      kw       == KeywordKind(SubSeq(mem, TokStart + 2, stop))
  IN  IF ~st.NDEBUG /\ At(mem, TokStart) # 36
      THEN Fault(st, "assert")
      ELSE IF ~InMem(mem, stop)
      THEN Fault(s1, "oob")
      ELSE FormToken(IF kw = "identifier" THEN "dollarident" ELSE kw, TokStart, s1)

LexDollarIdent(mem, st) ==
  LET TokStart == st.CurPtr - 1
      stop     == IdentBodyEnd(mem, st.CurPtr)
      s1       == [st EXCEPT !.CurPtr = stop, !.Reads = @ \cup (st.CurPtr .. stop)]
  IN  IF ~st.NDEBUG /\ At(mem, TokStart) # 36
      THEN Fault(st, "assert")
      ELSE IF ~InMem(mem, stop)
      THEN Fault(s1, "oob")
      ELSE FormToken("dollarident", TokStart, s1)

\* while (isdigit(*CurPtr)) ++CurPtr;  the position the loop stops at
RECURSIVE DigitEnd(_, _)
DigitEnd(mem, p) ==
  IF InMem(mem, p) /\ isdigit(At(mem, p)) THEN DigitEnd(mem, p + 1) ELSE p

\* LexDigit with the loop of LexIdentifier
LexDigit_IdentLoop(mem, st) ==
  LET TokStart == st.CurPtr - 1
      stop     == IdentBodyEnd(mem, st.CurPtr)
      s1       == [st EXCEPT !.CurPtr = stop, !.Reads = @ \cup (st.CurPtr .. stop)]
  IN  IF ~st.NDEBUG /\ ~isdigit(At(mem, TokStart))
      THEN Fault(st, "assert")
      ELSE IF ~InMem(mem, stop)
      THEN Fault(s1, "oob")
      ELSE FormToken("numeric_constant", TokStart, s1)

LexDigit(mem, st) ==
  LET TokStart == st.CurPtr - 1
      stop     == DigitEnd(mem, st.CurPtr)
      s1       == [st EXCEPT !.CurPtr = stop, !.Reads = @ \cup (st.CurPtr .. stop)]
  IN  IF ~st.NDEBUG /\ ~isdigit(At(mem, TokStart))
      THEN Fault(st, "assert")
      ELSE IF ~InMem(mem, stop)
      THEN Fault(s1, "oob")
      ELSE FormToken("numeric_constant", TokStart, s1)

(***************************************************************************)
(* Main lexer loop.                                                        *)
(***************************************************************************)

\* the single-character cases of the switch: ( ) { } [ ] . , ;
PunctKind(c) ==
  CASE c = 40  -> "l_paren"
    [] c = 41  -> "r_paren"
    [] c = 123 -> "l_brace"
    [] c = 125 -> "r_brace"
    [] c = 91  -> "l_square"
    [] c = 93  -> "r_square"
    [] c = 46  -> "period"
    [] c = 44  -> "comma"
    [] c = 59  -> "semi"
    [] OTHER   -> "none"

\* case ' ': case '\t': case '\n': case '\r':
IsWhitespace(c) == c = 32 \/ c = 9 \/ c = 10 \/ c = 13

\* case '=': case '-': case '+': case '*': case '%': case '<': case '>':
\* case '!': case '&': case '|': case '^':
IsPunctuatorStart(c) == c \in {61, 45, 43, 42, 37, 60, 62, 33, 38, 124, 94}

\* case 'A' .. 'Z': case 'a' .. 'z': case '_':
IsIdentStart(c) == (c >= 65 /\ c <= 90) \/ (c >= 97 /\ c <= 122) \/ c = 95

\* case '0' .. '9':
IsDigitStart(c) == c >= 48 /\ c <= 57

\* LexNul with the cursor, not the nul it has just passed, compared to
\* the end of the buffer
LexNul_OffByOne(mem, BufferEnd, TokStart, s1) ==
  IF s1.CurPtr # BufferEnd
  THEN [restart |-> TRUE,
        st |-> Warning(s1, s1.CurPtr - 1, "nul character embedded in middle of file")]
  ELSE [restart |-> FALSE, st |-> FormToken("eof", TokStart, s1)]

\* case 0: of the switch; s1 is the lexer after *CurPtr++
LexNul(mem, BufferEnd, TokStart, s1) ==
  IF s1.CurPtr - 1 # BufferEnd
  THEN [restart |-> TRUE,
        st |-> Warning(s1, s1.CurPtr - 1, "nul character embedded in middle of file")]
  ELSE [restart |-> FALSE, st |-> FormToken("eof", TokStart, s1)]

\* LexColon with the second ':' consumed without looking at it
LexColon_NoLookahead(mem, TokStart, s1) ==
  FormToken("coloncolon", TokStart, [s1 EXCEPT !.CurPtr = @ + 1])

\* LexColon without the ++CurPtr over the second ':'
LexColon_NoAdvance(mem, TokStart, s1) ==
  IF ~InMem(mem, s1.CurPtr)
  THEN Fault([s1 EXCEPT !.Reads = @ \cup {s1.CurPtr}], "oob")
  ELSE LET s2 == [s1 EXCEPT !.Reads = @ \cup {s1.CurPtr}]
       IN  IF At(mem, s2.CurPtr) # 58
           THEN FormToken("colon", TokStart, s2)
           ELSE FormToken("coloncolon", TokStart, s2)

\* case ':': of the switch
LexColon(mem, TokStart, s1) ==
  IF ~InMem(mem, s1.CurPtr)
  THEN Fault([s1 EXCEPT !.Reads = @ \cup {s1.CurPtr}], "oob")
  ELSE LET s2 == [s1 EXCEPT !.Reads = @ \cup {s1.CurPtr}]
       IN  IF At(mem, s2.CurPtr) # 58
           THEN FormToken("colon", TokStart, s2)
           ELSE FormToken("coloncolon", TokStart, [s2 EXCEPT !.CurPtr = @ + 1])

\* LexInvalid with the invalid character put back
LexInvalid_PutBack(TokStart, s1) ==
  FormToken("unknown", TokStart,
            [Error(s1, s1.CurPtr - 1, "invalid character in source file")
               EXCEPT !.CurPtr = @ - 1])

\* LexInvalid with the error located at the cursor
LexInvalid_WrongLoc(TokStart, s1) ==
  FormToken("unknown", TokStart,
            Error(s1, s1.CurPtr, "invalid character in source file"))

\* default: of the switch
LexInvalid(TokStart, s1) ==
  FormToken("unknown", TokStart,
            Error(s1, s1.CurPtr - 1, "invalid character in source file"))

\* Lex from the label Restart on
RECURSIVE LexLoop(_, _, _)
LexLoop(mem, BufferEnd, st) ==
  LET TokStart == st.CurPtr
  IN  IF st.Fault # "none"
      THEN st
      ELSE IF ~InMem(mem, TokStart)
      THEN Fault([st EXCEPT !.Reads = @ \cup {TokStart}], "oob")
      ELSE
      LET c  == At(mem, TokStart)
          s1 == [st EXCEPT !.CurPtr = @ + 1,
                           !.Reads = @ \cup {TokStart},
                           !.Restarts = Append(@, TokStart)]
      IN  CASE IsWhitespace(c) -> LexLoop(mem, BufferEnd, s1)
            [] c = 0 ->
                 LET n == LexNul(mem, BufferEnd, TokStart, s1)
                 IN  IF n.restart THEN LexLoop(mem, BufferEnd, n.st) ELSE n.st
            [] PunctKind(c) # "none" -> FormToken(PunctKind(c), TokStart, s1)
            [] c = 58 -> LexColon(mem, TokStart, s1)
            [] c = 47 ->
                 IF ~InMem(mem, s1.CurPtr)
                 THEN Fault([s1 EXCEPT !.Reads = @ \cup {s1.CurPtr}], "oob")
                 ELSE LET s2 == [s1 EXCEPT !.Reads = @ \cup {s1.CurPtr}]
                      IN  IF At(mem, s2.CurPtr) = 47
                          THEN LET s3 == SkipSlashSlashComment(mem, BufferEnd, s2)
                               IN  IF s3.Fault # "none" THEN s3
                                   ELSE LexLoop(mem, BufferEnd, s3)
                          ELSE LexPunctuationIdentifier(mem, s2)
            [] IsPunctuatorStart(c) -> LexPunctuationIdentifier(mem, s1)
            [] IsIdentStart(c) -> LexIdentifier(mem, s1)
            [] c = 36 -> LexDollarIdent(mem, s1)
            [] IsDigitStart(c) -> LexDigit(mem, s1)
            [] OTHER -> LexInvalid(TokStart, s1)

\* Lexer::Lex: the range assert, then the dispatch loop
Lex(mem, BufferEnd, st) ==
  IF ~st.NDEBUG /\ ~(st.CurPtr >= 0 /\ st.CurPtr <= BufferEnd)
  THEN Fault(st, "assert")
  ELSE LexLoop(mem, BufferEnd, st)

(***************************************************************************)
(* The lexer as a state machine: one Lexer over one buffer, Lex called     *)
(* again and again.                                                        *)
(***************************************************************************)
VARIABLES
  Buffer,     \* contents of the memory buffer, without the nul sentinel
  NDEBUG,     \* TRUE in a build whose asserts are compiled out
  CurPtr,     \* the cursor
  Result,     \* the token the last call of Lex stored
  Diags,      \* diagnostics handed to the source manager so far
  Reads,      \* every position read so far
  Restarts,   \* positions at which the last call passed the label Restart
  EntryPtr,   \* the cursor at entry to the last call
  EntryDiags, \* the number of diagnostics at entry to the last call
  Tokens,     \* the tokens returned so far, oldest first
  status      \* "ready", or how the last call failed to return

vars == <<Buffer, NDEBUG, CurPtr, Result, Diags, Reads, Restarts, EntryPtr,
          EntryDiags, Tokens, status>>

BufferStart == 0
BufferEnd == Len(Buffer)

\* the buffer with its nul sentinel
Memory == Buffer \o <<0>>

\* Lexer::Lexer
Init ==
  /\ Buffer \in Inputs
  /\ NDEBUG \in BOOLEAN
  /\ CurPtr = BufferStart
  /\ Result = NoToken
  /\ Diags = <<>>
  /\ Reads = {}
  /\ Restarts = <<>>
  /\ EntryPtr = BufferStart
  /\ EntryDiags = 0
  /\ Tokens = <<>>
  /\ status = "ready"

\* one call of Lex on memory mem, with a source manager that does not
\* come back from a location outside the buffer (smfaults) or prints it.
\* A read outside mem ends the modelled call with status outside: "oob"
\* where the memory is unreadable there and the call does not return,
\* "beyond" where the modelled memory ends there: the call does not return
\* if the memory ends there too, and else goes on in memory that is not
\* modelled.
Call(mem, smfaults, outside) ==
  LET st0 == [CurPtr |-> CurPtr, Result |-> Result, Diags |-> Diags,
              Reads |-> Reads, Restarts |-> <<>>, Fault |-> "none",
              NDEBUG |-> NDEBUG, BufferEnd |-> BufferEnd,
              SMFaults |-> smfaults]
      r   == Lex(mem, BufferEnd, st0)
  IN  /\ CurPtr' = r.CurPtr
      /\ Result' = IF r.Fault = "none" THEN r.Result ELSE Result
      /\ Diags' = r.Diags
      /\ Reads' = r.Reads
      /\ Restarts' = r.Restarts
      /\ EntryPtr' = CurPtr
      /\ EntryDiags' = Len(Diags)
      /\ Tokens' = IF r.Fault = "none" THEN Append(Tokens, r.Result) ELSE Tokens
      /\ status' = (CASE r.Fault = "none" -> "ready"
                       [] r.Fault = "oob"  -> outside
                       [] OTHER            -> r.Fault)
      /\ UNCHANGED <<Buffer, NDEBUG>>

\* Lex called with the cursor inside the buffer or on its sentinel
LexCall ==
  /\ status = "ready"
  /\ CurPtr <= BufferEnd
  /\ Call(Memory, FALSE, "oob")

\* the number of bytes behind the end sentinel modelled with every value
TailBound == IF MaxMem - BufferEnd - 1 >= 1 THEN MaxMem - BufferEnd - 1 ELSE 1

\* Lex called with the cursor behind the sentinel: what lies there is not
\* the buffer's.  The memory from the cursor on is, at every call anew,
\* bytes of any value up to TailBound bytes behind the sentinel, readable
\* as far as that or ending earlier; for the call entered right behind the
\* sentinel it may also be one of the longer layouts.  Where the modelled
\* bytes end the memory may go on: the model follows the lexer no further
\* (status "beyond").  The source manager is handed locations
\* it has no buffer for.  The call reads no byte in front of its cursor, so
\* the bytes between the sentinel and the cursor are left nul.  In a build
\* with asserts the range assert fails before a byte is read.
LexCallPastEnd ==
  /\ status = "ready"
  /\ CurPtr > BufferEnd
  /\ LET skip == CurPtr - BufferEnd - 1
         room == IF TailBound > skip THEN TailBound - skip ELSE 0
         gap  == [i \in 1..skip |-> 0]
     IN  \/ /\ ~NDEBUG
            /\ Call(Memory, FALSE, "oob")
         \/ /\ NDEBUG
            /\ \E tail \in Tails(room), smfaults \in BOOLEAN :
                 Call(Memory \o gap \o tail, smfaults,
                      IF Len(tail) = room THEN "beyond" ELSE "oob")
         \/ /\ NDEBUG
            /\ skip = 0
            /\ \E tail \in SampleTails, smfaults \in BOOLEAN :
                 Call(Memory \o tail, smfaults, "beyond")

Next == LexCall \/ LexCallPastEnd

Spec == Init /\ [][Next]_vars

\* Lex called again and again on buffer buf by a Lexer whose cursor is at
\* cur, up to the eof token: the <<text, kind>> of every token returned
RECURSIVE ScanFrom(_, _, _)
ScanFrom(buf, cur, ndebug) ==
  LET mem == buf \o <<0>>
      r   == Lex(mem, Len(buf),
                 [CurPtr |-> cur, Result |-> NoToken, Diags |-> <<>>,
                  Reads |-> {}, Restarts |-> <<>>, Fault |-> "none",
                  NDEBUG |-> ndebug, BufferEnd |-> Len(buf),
                  SMFaults |-> FALSE])
  IN  IF r.Fault # "none" THEN {}
      ELSE { <<SubSeq(mem, r.Result.Start + 1, r.Result.Start + r.Result.Length),
               r.Result.Kind>> }
             \cup (IF r.Result.Kind = "eof" \/ r.CurPtr > Len(buf) THEN {}
                   ELSE ScanFrom(buf, r.CurPtr, ndebug))

\* the <<text, kind>> of every token of the scan of every input buffer
AllTextKinds == UNION { ScanFrom(b, 0, TRUE) : b \in Inputs }

(***************************************************************************)
(* Vocabulary of the properties.                                           *)
(***************************************************************************)

\* some call has returned the end-of-input token
EofReturned == \E i \in DOMAIN Tokens : Tokens[i].Kind = "eof"

\* the last call was made with the cursor in range and has returned
ReturnedInRange == Tokens # <<>> /\ status = "ready" /\ EntryPtr <= BufferEnd

\* the diagnostics the last call reported
CallDiags == SubSeq(Diags, EntryDiags + 1, Len(Diags))

\* the number of diagnostics of ds with this kind, message and location
CountDiags(ds, kind, msg, loc) ==
  Cardinality({ i \in DOMAIN ds :
                  ds[i].Kind = kind /\ ds[i].Message = msg /\ ds[i].Loc = loc })

\* the position the last call dispatched its token from
TokStartOfCall == Restarts[Len(Restarts)]

(***************************************************************************)
(* C1: once Lex has returned tok::eof, every later call returns tok::eof   *)
(* again, fails no assertion and leaves the cursor where it was.           *)
(* Stated as a step property: a call made after an eof token returns, its  *)
(* token is eof and the cursor is unchanged.  The code breaks it: the call *)
(* that returns eof leaves CurPtr at BufferEnd + 1, so the next call fails *)
(* the range assert or reads behind the sentinel.                          *)
(***************************************************************************)
C1_EofIsTerminal ==
  [][ (status = "ready" /\ Tokens # <<>> /\ Result.Kind = "eof")
        => (status' = "ready" /\ Result'.Kind = "eof" /\ CurPtr' = CurPtr) ]_vars

(***************************************************************************)
(* C2: whenever Lex can be entered and whenever it has returned, the       *)
(* cursor lies in [BufferStart, BufferEnd]; the call returning eof leaves  *)
(* it at BufferEnd.  The code breaks it: eof is formed after *CurPtr++.    *)
(***************************************************************************)
C2_CursorInRange ==
  status = "ready" => (BufferStart <= CurPtr /\ CurPtr <= BufferEnd)

(***************************************************************************)
(* C3: on a buffer of length N, Lex called repeatedly from a fresh Lexer   *)
(* returns tok::eof after at most N + 1 calls: until eof has been returned *)
(* every call made has returned and left the lexer callable in range, and  *)
(* once N + 1 calls have returned one of the first N + 1 tokens is eof.    *)
(***************************************************************************)
C3_EofWithinLengthPlusOneCalls ==
  /\ ~EofReturned => (status = "ready" /\ CurPtr <= BufferEnd
                        /\ Len(Tokens) <= BufferEnd)
  /\ Len(Tokens) >= BufferEnd + 1 =>
       \E i \in 1..(BufferEnd + 1) : Tokens[i].Kind = "eof"

\* eof is returned by call N + 1 exactly, on a buffer of three or more
\* characters
C3_Witness ==
  /\ BufferEnd >= 3
  /\ Len(Tokens) = BufferEnd + 1
  /\ status = "ready"
  /\ Result.Kind = "eof"

(***************************************************************************)
(* C4: a call that returns a token other than tok::eof returns a non-empty *)
(* text that starts at or after the cursor at entry and ends at the cursor *)
(* at return, and the cursor has strictly advanced.                        *)
(***************************************************************************)
C4_NonEofTokenAdvances ==
  (Tokens # <<>> /\ status = "ready" /\ Result.Kind # "eof") =>
     /\ Result.Length > 0
     /\ Result.Start >= EntryPtr
     /\ Result.Start + Result.Length = CurPtr
     /\ CurPtr > EntryPtr

\* a second or later call skipped trivia and returned a token of two or
\* more characters
C4_Witness ==
  /\ ReturnedInRange
  /\ Len(Tokens) >= 2
  /\ Result.Kind # "eof"
  /\ Result.Start > EntryPtr
  /\ Result.Length >= 2

\* the end of the text of a token
TokEnd(t) == t.Start + t.Length

\* the index in Tokens of the first eof token
FirstEof ==
  CHOOSE i \in DOMAIN Tokens :
    Tokens[i].Kind = "eof" /\ \A j \in 1..(i - 1) : Tokens[j].Kind # "eof"

Min(S) == CHOOSE x \in S : \A y \in S : x <= y

\* buf from position p up to, not including, position q is made of
\* whitespace, nul bytes and whole // comments, each comment running
\* through its line terminator or, lacking one, to the end of buf
RECURSIVE TriviaOnly(_, _, _)
TriviaOnly(buf, p, q) ==
  IF p >= q THEN p = q
  ELSE IF buf[p + 1] \in {32, 9, 10, 13, 0} THEN TriviaOnly(buf, p + 1, q)
  ELSE IF buf[p + 1] = 47 /\ p + 1 < q /\ buf[p + 2] = 47
  THEN LET ends == { e \in (p + 2)..(q - 1) : buf[e + 1] \in {10, 13} }
       IN  IF ends = {} THEN q = Len(buf) ELSE TriviaOnly(buf, Min(ends) + 1, q)
  ELSE FALSE

(***************************************************************************)
(* C5: the tokens returned up to and including the first tok::eof lie in   *)
(* [BufferStart, BufferEnd), in strictly increasing order without overlap, *)
(* and what lies before, between and after them is whitespace, embedded    *)
(* nul bytes and // comments only, so that tokens and skipped stretches    *)
(* together are the buffer contents.  The code breaks it with the eof      *)
(* token, whose text is the sentinel at [BufferEnd, BufferEnd + 1).        *)
(***************************************************************************)
C5_TokensTileBuffer ==
  EofReturned =>
    LET k == FirstEof
    IN  /\ \A i \in 1..k : Tokens[i].Start >= BufferStart /\ TokEnd(Tokens[i]) <= BufferEnd
        /\ \A i \in 1..(k - 1) : TokEnd(Tokens[i]) <= Tokens[i + 1].Start
        /\ TriviaOnly(Buffer, BufferStart, Tokens[1].Start)
        /\ \A i \in 1..(k - 1) :
             TriviaOnly(Buffer, TokEnd(Tokens[i]), Tokens[i + 1].Start)
        /\ TriviaOnly(Buffer, TokEnd(Tokens[k]), BufferEnd)

(***************************************************************************)
(* C6: every position the lexer has read, in any call, lies in             *)
(* [BufferStart, BufferEnd].  The code breaks it in a build without        *)
(* asserts: the call after eof reads at BufferEnd + 1.                     *)
(***************************************************************************)
C6_ReadsInBuffer == \A p \in Reads : BufferStart <= p /\ p <= BufferEnd

\* the characters that have a case of their own in the switch of Lex
DispatchChars ==
  {0, 32, 9, 10, 13, 40, 41, 123, 125, 91, 93, 46, 44, 59, 58, 47,
   61, 45, 43, 42, 37, 60, 62, 33, 38, 124, 94, 36, 95}
    \cup (65..90) \cup (97..122) \cup (48..57)

InvalidMsg == "invalid character in source file"

(***************************************************************************)
(* C7: when the character Lex dispatches on has no case in the switch, the *)
(* call returns a tok::unknown token of length 1 at that character, has    *)
(* reported exactly one error, located at that character, has consumed     *)
(* that character only, and leaves the lexer callable in range; the calls  *)
(* that follow still return eof within the N + 1 calls of the buffer.      *)
(***************************************************************************)
C7_InvalidCharacter ==
  /\ (Restarts # <<>> /\ EntryPtr <= BufferEnd
        /\ Memory[TokStartOfCall + 1] \notin DispatchChars) =>
       /\ status = "ready"
       /\ Result = [Kind |-> "unknown", Start |-> TokStartOfCall, Length |-> 1]
       /\ CurPtr = TokStartOfCall + 1
       /\ CurPtr <= BufferEnd
       /\ Cardinality({ i \in DOMAIN CallDiags : CallDiags[i].Kind = "error" }) = 1
       /\ CountDiags(CallDiags, "error", InvalidMsg, TokStartOfCall) = 1
  /\ ((\E i \in DOMAIN Tokens : Tokens[i].Kind = "unknown")
        /\ Len(Tokens) >= BufferEnd + 1) => EofReturned

\* eof returned by a scan whose second or later call had returned an
\* unknown token, with its one error
C7_Witness ==
  /\ ReturnedInRange
  /\ Result.Kind = "eof"
  /\ \E i \in 2..Len(Tokens) :
       /\ Tokens[i].Kind = "unknown"
       /\ CountDiags(Diags, "error", InvalidMsg, Tokens[i].Start) = 1

\* the positions of the nul bytes before BufferEnd
EmbeddedNuls == { p \in BufferStart..(BufferEnd - 1) : Buffer[p + 1] = 0 }

NulMsg == "nul character embedded in middle of file"

(***************************************************************************)
(* C8: a nul before BufferEnd is inside no returned token and is not where *)
(* eof is returned; the dispatch loop restarts at the character after it;  *)
(* it has exactly one embedded-nul warning once the cursor has passed it   *)
(* and none before; the eof token starts at BufferEnd and the nul there    *)
(* has no embedded-nul warning.                                            *)
(***************************************************************************)
C8_EmbeddedNul ==
  /\ \A p \in EmbeddedNuls :
       /\ \A i \in DOMAIN Tokens : ~(Tokens[i].Start <= p /\ p < TokEnd(Tokens[i]))
       /\ CountDiags(Diags, "warning", NulMsg, p) = IF p < CurPtr THEN 1 ELSE 0
  /\ \A i \in DOMAIN Tokens : Tokens[i].Kind = "eof" => Tokens[i].Start = BufferEnd
  /\ CountDiags(Diags, "warning", NulMsg, BufferEnd) = 0
  /\ EntryPtr <= BufferEnd =>
       \A i \in DOMAIN Restarts :
         Restarts[i] \in EmbeddedNuls =>
           i < Len(Restarts) /\ Restarts[i + 1] = Restarts[i] + 1

\* eof returned on a buffer with a nul met by the dispatch loop and a nul
\* inside a token-free comment, each warned about
C8_Witness ==
  /\ ReturnedInRange
  /\ Result.Kind = "eof"
  /\ Cardinality(EmbeddedNuls) >= 2
  /\ Len(Tokens) >= 2
  /\ \E r \in 0..(BufferEnd - 2) : Buffer[r + 1] = 47 /\ Buffer[r + 2] = 47

\* a // at position r of the buffer
IsSlashSlash(r) ==
  r >= BufferStart /\ r + 1 < BufferEnd /\ Buffer[r + 1] = 47 /\ Buffer[r + 2] = 47

\* the line terminators behind the // at r
LineEnds(r) == { q \in (r + 2)..(BufferEnd - 1) : Buffer[q + 1] \in {10, 13} }

(***************************************************************************)
(* C9: when the dispatch loop of a call meets // and a '\n' or '\r'        *)
(* follows, the call forms no token there: the loop restarts right after   *)
(* the first such line terminator, the token the call returns starts       *)
(* behind it, and no returned token overlaps the comment.                  *)
(***************************************************************************)
C9_CommentSkipped ==
  (Restarts # <<>> /\ EntryPtr <= BufferEnd) =>
    \A i \in DOMAIN Restarts :
      LET r == Restarts[i]
      IN  (IsSlashSlash(r) /\ LineEnds(r) # {}) =>
            LET q == Min(LineEnds(r))
            IN  /\ status = "ready"
                /\ i < Len(Restarts)
                /\ Restarts[i + 1] = q + 1
                /\ Result.Start = TokStartOfCall
                /\ Result.Start > q
                /\ CurPtr > q
                /\ \A j \in DOMAIN Tokens :
                     TokEnd(Tokens[j]) <= r \/ Tokens[j].Start > q

\* "// comment\nfoo": the first call returns the identifier foo
C9_Witness ==
  /\ Buffer = <<47, 47, 32, 99, 111, 109, 109, 101, 110, 116, 10, 102, 111, 111>>
  /\ Tokens = <<[Kind |-> "identifier", Start |-> 11, Length |-> 3]>>
  /\ Restarts = <<0, 11>>
  /\ CurPtr = 14

NoNewlineMsg == "no newline at end of // comment"

(***************************************************************************)
(* C10: when the dispatch loop of a call meets // and no '\n' or '\r'      *)
(* follows before the end of the buffer, the comment skipper leaves the    *)
(* cursor at BufferEnd, where the loop restarts for the last time, exactly *)
(* one "no newline at end of // comment" warning has been reported, and    *)
(* the call returns tok::eof.                                              *)
(***************************************************************************)
C10_UnterminatedComment ==
  (Restarts # <<>> /\ EntryPtr <= BufferEnd) =>
    \A i \in DOMAIN Restarts :
      LET r == Restarts[i]
      IN  (IsSlashSlash(r) /\ LineEnds(r) = {}) =>
            /\ status = "ready"
            /\ Len(Restarts) = i + 1
            /\ Restarts[i + 1] = BufferEnd
            /\ Result.Kind = "eof"
            /\ Result.Start = BufferEnd
            /\ Cardinality({ d \in DOMAIN Diags :
                   Diags[d].Kind = "warning" /\ Diags[d].Message = NoNewlineMsg }) = 1
            /\ Cardinality({ d \in DOMAIN CallDiags :
                   CallDiags[d].Kind = "warning" /\ CallDiags[d].Message = NoNewlineMsg }) = 1

\* a comment with an embedded nul runs to the end of the buffer, behind an
\* earlier token
C10_Witness ==
  /\ ReturnedInRange
  /\ Len(Tokens) >= 2
  /\ Len(Restarts) >= 2
  /\ IsSlashSlash(Restarts[Len(Restarts) - 1])
  /\ LineEnds(Restarts[Len(Restarts) - 1]) = {}
  /\ Restarts[Len(Restarts) - 1] + 2 \in EmbeddedNuls
  /\ Result.Kind = "eof"

\* the text of a token of the buffer
TokText(t) == SubSeq(Memory, t.Start + 1, t.Start + t.Length)

\* the kinds of the tokens returned so far, oldest first
TokenKinds == [i \in DOMAIN Tokens |-> Tokens[i].Kind]

\* the first position from p on whose character is not in S; the nul
\* sentinel is in none of the sets this is used with
RunEnd(p, S) == Min({ q \in p..BufferEnd : Memory[q + 1] \notin S })

\* letters and '_'; letters, digits, '_' and '$'; decimal digits;
\* the characters of "/=-+*%<>!&|^"
IdentStartChars == (65..90) \cup (97..122) \cup {95}
IdentBodyChars == (65..90) \cup (97..122) \cup (48..57) \cup {95, 36}
DigitChars == 48..57
OperatorChars == {47, 61, 45, 43, 42, 37, 60, 62, 33, 38, 124, 94}

\* the reserved spellings and their kinds
ReservedKind(text) ==
  IF text = <<102, 117, 110, 99>> THEN "kw_func"
  ELSE IF text = <<118, 97, 114>> THEN "kw_var"
  ELSE IF text = <<115, 116, 114, 117, 99, 116>> THEN "kw_struct"
  ELSE IF text = <<116, 121, 112, 101, 97, 108, 105, 97, 115>> THEN "kw_typealias"
  ELSE IF text = <<111, 110, 101, 111, 102>> THEN "kw_oneof"
  ELSE IF text = <<95, 95, 98, 117, 105, 108, 116, 105, 110, 95, 105, 110, 116,
                   51, 50, 95, 116, 121, 112, 101>> THEN "kw___builtin_int32_type"
  ELSE "identifier"

(***************************************************************************)
(* C11: when Lex dispatches on a letter or '_', the token is that          *)
(* character with the maximal run of letters, digits, '_' and '$' behind   *)
(* it, and its kind is the reserved-word kind of the whole text when the   *)
(* text is one of the six reserved spellings, tok::identifier otherwise.   *)
(***************************************************************************)
C11_ReservedWords ==
  (ReturnedInRange /\ Memory[TokStartOfCall + 1] \in IdentStartChars) =>
    LET e == RunEnd(TokStartOfCall + 1, IdentBodyChars)
    IN  /\ Result.Start = TokStartOfCall
        /\ TokEnd(Result) = e
        /\ CurPtr = e
        /\ Result.Kind = ReservedKind(SubSeq(Memory, TokStartOfCall + 1, e))

\* "func var struct typealias oneof __builtin_int32_type funct Var _func"
\* scanned to its end
C11_Witness ==
  /\ ReturnedInRange
  /\ Len(Buffer) = 68
  /\ TokenKinds = <<"kw_func", "kw_var", "kw_struct", "kw_typealias", "kw_oneof",
                    "kw___builtin_int32_type", "identifier", "identifier",
                    "identifier", "eof">>
  /\ TokText(Tokens[7]) = <<102, 117, 110, 99, 116>>
  /\ TokText(Tokens[8]) = <<86, 97, 114>>
  /\ TokText(Tokens[9]) = <<95, 102, 117, 110, 99>>

\* the last call dispatched on an operator character that does not open a
\* // comment
OperatorLed ==
  /\ ReturnedInRange
  /\ Memory[TokStartOfCall + 1] \in OperatorChars
  /\ ~(Memory[TokStartOfCall + 1] = 47 /\ Memory[TokStartOfCall + 2] = 47)

(***************************************************************************)
(* C12: a token led by an operator character is the whole run of           *)
(* characters of "/=-+*%<>!&|^" from there, one token; its kind is         *)
(* tok::equal exactly when the run is "=", tok::arrow exactly when the run *)
(* is "->", and the kind the lexer gives every other operator run, which   *)
(* is tok::identifier, otherwise.                                          *)
(***************************************************************************)
C12_OperatorRuns ==
  OperatorLed =>
    LET e    == RunEnd(TokStartOfCall, OperatorChars)
        text == SubSeq(Memory, TokStartOfCall + 1, e)
    IN  /\ Result.Start = TokStartOfCall
        /\ TokEnd(Result) = e
        /\ CurPtr = e
        /\ Result.Kind = IF text = <<61>> THEN "equal"
                         ELSE IF text = <<45, 62>> THEN "arrow"
                         ELSE "identifier"

\* "== += << => ->> / < = ->" scanned to its end
C12_Witness ==
  /\ ReturnedInRange
  /\ Buffer = <<61, 61, 32, 43, 61, 32, 60, 60, 32, 61, 62, 32, 45, 62, 62,
                32, 47, 32, 60, 32, 61, 32, 45, 62>>
  /\ TokenKinds = <<"identifier", "identifier", "identifier", "identifier",
                    "identifier", "identifier", "identifier", "equal", "arrow",
                    "eof">>
  /\ \A i \in 1..3 : Tokens[i].Length = 2
  /\ Tokens[5].Length = 3

(***************************************************************************)
(* C13: when Lex dispatches on ':', the token is tok::coloncolon of length *)
(* 2 if the next character is ':' and tok::colon of length 1 otherwise,    *)
(* the end sentinel included; a buffer that is a run of n colons is        *)
(* scanned as n div 2 coloncolon tokens, then n mod 2 colon tokens, then   *)
(* eof.                                                                    *)
(***************************************************************************)
C13_Colons ==
  /\ (ReturnedInRange /\ Memory[TokStartOfCall + 1] = 58) =>
       /\ Result.Start = TokStartOfCall
       /\ TokEnd(Result) = CurPtr
       /\ IF Memory[TokStartOfCall + 2] = 58
          THEN Result.Kind = "coloncolon" /\ Result.Length = 2
          ELSE Result.Kind = "colon" /\ Result.Length = 1
  /\ (ReturnedInRange /\ Result.Kind = "eof" /\ BufferEnd >= 1
        /\ \A i \in DOMAIN Buffer : Buffer[i] = 58) =>
       LET n == BufferEnd
       IN  TokenKinds = [i \in 1..((n \div 2) + (n % 2) + 1) |->
                           IF i <= n \div 2 THEN "coloncolon"
                           ELSE IF i <= (n \div 2) + (n % 2) THEN "colon"
                           ELSE "eof"]

\* ":::::" scanned to its end
C13_Witness ==
  /\ ReturnedInRange
  /\ Buffer = <<58, 58, 58, 58, 58>>
  /\ TokenKinds = <<"coloncolon", "coloncolon", "colon", "eof">>
  /\ Tokens[3] = [Kind |-> "colon", Start |-> 4, Length |-> 1]

(***************************************************************************)
(* C14: when Lex dispatches on a decimal digit, the token is a             *)
(* tok::numeric_constant whose text is the maximal run of decimal digits   *)
(* from there; what follows is lexed by the next call on its own: "123abc" *)
(* gives the numeric constant "123" and, right behind it, the identifier   *)
(* "abc".                                                                  *)
(***************************************************************************)
C14_NumericConstant ==
  /\ (ReturnedInRange /\ Memory[TokStartOfCall + 1] \in DigitChars) =>
       /\ Result.Kind = "numeric_constant"
       /\ Result.Start = TokStartOfCall
       /\ TokEnd(Result) = RunEnd(TokStartOfCall, DigitChars)
       /\ CurPtr = TokEnd(Result)
  /\ (Buffer = <<49, 50, 51, 97, 98, 99>> /\ Len(Tokens) >= 2) =>
       /\ Tokens[1] = [Kind |-> "numeric_constant", Start |-> 0, Length |-> 3]
       /\ Tokens[2] = [Kind |-> "identifier", Start |-> 3, Length |-> 3]

\* "123abc": the second call has returned
C14_Witness ==
  /\ ReturnedInRange
  /\ Buffer = <<49, 50, 51, 97, 98, 99>>
  /\ Len(Tokens) = 2
  /\ TokText(Tokens[1]) = <<49, 50, 51>>
  /\ TokText(Tokens[2]) = <<97, 98, 99>>

(***************************************************************************)
(* C15: the kind of a token is a function of its text alone: the token a   *)
(* call returns has the kind of every token with the same text that the    *)
(* scan of any input buffer returns at any position, whatever came before  *)
(* either of them.                                                         *)
(***************************************************************************)
C15_KindDependsOnTextOnly ==
  ReturnedInRange =>
    \A p \in AllTextKinds : p[1] = TokText(Result) => p[2] = Result.Kind

\* "var" returned as the second token of the reserved-word buffer, behind
\* "func" and a space, while the buffer "var" has it as its first token
C15_Witness ==
  /\ ReturnedInRange
  /\ Len(Buffer) = 68
  /\ Len(Tokens) = 2
  /\ Result = [Kind |-> "kw_var", Start |-> 5, Length |-> 3]
  /\ <<118, 97, 114>> \in Inputs
  /\ <<TokText(Result), "kw_var">> \in AllTextKinds

\* the last call returned an operator run other than "=" and "->"
OtherOperatorRun ==
  /\ OperatorLed
  /\ TokText(Result) # <<61>>
  /\ TokText(Result) # <<45, 62>>

\* the last call returned a letter- or underscore-led token that is not a
\* reserved word
PlainIdentifier ==
  /\ ReturnedInRange
  /\ Memory[TokStartOfCall + 1] \in IdentStartChars
  /\ ReservedKind(TokText(Result)) = "identifier"

(***************************************************************************)
(* C16, as claimed: an operator run that is neither "=" nor "->" has a     *)
(* kind different from the kind of letter- or underscore-led identifiers,  *)
(* tok::identifier.  The code gives it tok::identifier.                    *)
(***************************************************************************)
C16_OperatorKindDistinct ==
  OtherOperatorRun => Result.Kind # "identifier"

(***************************************************************************)
(* C16, amended: an operator run that is neither "=" nor "->" is returned  *)
(* with tok::identifier, the kind also returned for letter- or             *)
(* underscore-led identifiers that are not reserved words; the two differ  *)
(* in their text only.                                                     *)
(***************************************************************************)
C16_OperatorKindIsIdentifier ==
  /\ OtherOperatorRun => Result.Kind = "identifier"
  /\ PlainIdentifier => Result.Kind = "identifier"

\* "==" returned by the first call on "== += << => ->> / < = ->"
C16_Witness ==
  /\ OtherOperatorRun
  /\ Len(Buffer) = 24
  /\ Len(Tokens) = 1
  /\ TokText(Result) = <<61, 61>>
  /\ Result.Kind = "identifier"

\* the membership test of the sub-scanner the last call dispatched to, as
\* the set of characters that pass it; {} when it went to none of the four
ScannerChars ==
  LET c == Memory[TokStartOfCall + 1]
  IN  IF c \in IdentStartChars \/ c = 36 THEN IdentBodyChars
      ELSE IF c \in DigitChars THEN DigitChars
      ELSE IF c \in OperatorChars /\ ~(c = 47 /\ Memory[TokStartOfCall + 2] = 47)
      THEN OperatorChars
      ELSE {}

(***************************************************************************)
(* C17: a token of the identifier, dollar-identifier, numeric or operator  *)
(* sub-scanner is maximal: every character of it after the first passes    *)
(* the scanner's membership test, the character at the cursor at return    *)
(* does not, and no nul is inside the token, so that an embedded nul or    *)
(* the end sentinel ends the span.                                         *)
(***************************************************************************)
C17_MaximalMunch ==
  (ReturnedInRange /\ ScannerChars # {}) =>
    /\ Result.Start = TokStartOfCall
    /\ TokEnd(Result) = CurPtr
    /\ CurPtr <= BufferEnd
    /\ \A q \in (Result.Start + 1)..(CurPtr - 1) : Memory[q + 1] \in ScannerChars
    /\ Memory[CurPtr + 1] \notin ScannerChars
    /\ \A q \in Result.Start..(CurPtr - 1) : Memory[q + 1] # 0

\* a dollar-identifier of two or more characters ended by an embedded nul
C17_Witness ==
  /\ ReturnedInRange
  /\ Result.Kind = "dollarident"
  /\ Result.Length >= 2
  /\ CurPtr < BufferEnd
  /\ Memory[CurPtr + 1] = 0

(***************************************************************************)
(* C18: when Lex dispatches on '$', the token is tok::dollarident, its     *)
(* text the '$' with the maximal run of letters, digits, '_' and '$'       *)
(* behind it, whatever that run spells; a '$' inside the run of a letter-  *)
(* or underscore-led token is part of that token, which is no              *)
(* dollar-identifier.  "$func a$b $" gives the dollar-identifier "$func",  *)
(* the identifier "a$b" and the dollar-identifier "$".                     *)
(***************************************************************************)
C18_DollarIdent ==
  /\ (ReturnedInRange /\ Memory[TokStartOfCall + 1] = 36) =>
       /\ Result.Kind = "dollarident"
       /\ Result.Start = TokStartOfCall
       /\ TokEnd(Result) = RunEnd(TokStartOfCall + 1, IdentBodyChars)
       /\ CurPtr = TokEnd(Result)
  /\ (ReturnedInRange /\ Memory[TokStartOfCall + 1] \in IdentStartChars) =>
       /\ Result.Kind # "dollarident"
       /\ \A q \in (TokStartOfCall + 1)..(BufferEnd - 1) :
            (Memory[q + 1] = 36
               /\ \A k \in (TokStartOfCall + 1)..q : Memory[k + 1] \in IdentBodyChars)
              => (Result.Start < q /\ q < TokEnd(Result))
  /\ (ReturnedInRange /\ Result.Kind = "eof"
        /\ Buffer = <<36, 102, 117, 110, 99, 32, 97, 36, 98, 32, 36>>) =>
       Tokens = << [Kind |-> "dollarident", Start |-> 0, Length |-> 5],
                   [Kind |-> "identifier", Start |-> 6, Length |-> 3],
                   [Kind |-> "dollarident", Start |-> 10, Length |-> 1],
                   [Kind |-> "eof", Start |-> 11, Length |-> 1] >>

\* "$func a$b $" scanned to its end
C18_Witness ==
  /\ ReturnedInRange
  /\ Buffer = <<36, 102, 117, 110, 99, 32, 97, 36, 98, 32, 36>>
  /\ TokenKinds = <<"dollarident", "identifier", "dollarident", "eof">>

\* the position behind the comment opened by the // at r: behind its first
\* line terminator, or the end of the buffer when it has none
CommentEnd(r) == IF LineEnds(r) = {} THEN BufferEnd ELSE Min(LineEnds(r)) + 1

(***************************************************************************)
(* C19: when the dispatch loop of a call meets // and a nul lies before    *)
(* BufferEnd inside the comment, ahead of the comment's line terminator,   *)
(* the comment does not end there: the nul has exactly one embedded-nul    *)
(* warning, reported by this call, the loop restarts only behind the first *)
(* '\n' or '\r' or at the end of the buffer, and no token starts between   *)
(* the nul and that place.                                                 *)
(***************************************************************************)
C19_NulInsideComment ==
  (Restarts # <<>> /\ EntryPtr <= BufferEnd) =>
    \A i \in DOMAIN Restarts :
      LET r == Restarts[i]
      IN  IsSlashSlash(r) =>
            \A p \in EmbeddedNuls :
              (r + 2 <= p /\ p < CommentEnd(r)) =>
                /\ status = "ready"
                /\ i < Len(Restarts)
                /\ Restarts[i + 1] = CommentEnd(r)
                /\ CountDiags(Diags, "warning", NulMsg, p) = 1
                /\ CountDiags(CallDiags, "warning", NulMsg, p) = 1
                /\ Result.Start >= CommentEnd(r)
                /\ \A j \in DOMAIN Tokens :
                     ~(p < Tokens[j].Start /\ Tokens[j].Start < CommentEnd(r))

\* "//\0a\nb": the first call skips the comment, nul and 'a' included, and
\* returns the identifier b
C19_Witness ==
  /\ ReturnedInRange
  /\ Buffer = <<47, 47, 0, 97, 10, 98>>
  /\ Restarts = <<0, 5>>
  /\ Tokens = <<[Kind |-> "identifier", Start |-> 5, Length |-> 1]>>
  /\ CountDiags(Diags, "warning", NulMsg, 2) = 1

(***************************************************************************)
(* C20: a // opens a comment only where the dispatch loop meets its first  *)
(* '/': the loop jumps over more than one character only from such a       *)
(* place.  A // that follows an operator character inside a run is part of *)
(* the one tok::identifier token of that run, no comment is skipped, and   *)
(* the cursor is left at the end of the run, so that what follows on the   *)
(* line is lexed: "+// x\n" gives "+//" and "x", "=//a" gives "=//" and    *)
(* "a".                                                                    *)
(***************************************************************************)
C20_SlashSlashInsideRun ==
  /\ OperatorLed =>
       \A p \in (TokStartOfCall + 1)..(BufferEnd - 2) :
         (IsSlashSlash(p)
            /\ \A k \in TokStartOfCall..p : Memory[k + 1] \in OperatorChars) =>
           /\ Result.Kind = "identifier"
           /\ Result.Start = TokStartOfCall
           /\ p + 1 < TokEnd(Result)
           /\ CurPtr = RunEnd(TokStartOfCall, OperatorChars)
           /\ CurPtr < CommentEnd(p) \/ (LineEnds(p) = {} /\ CurPtr = BufferEnd)
           /\ \A d \in DOMAIN CallDiags : CallDiags[d].Message # NoNewlineMsg
  /\ (Restarts # <<>> /\ EntryPtr <= BufferEnd) =>
       \A i \in 1..(Len(Restarts) - 1) :
         Restarts[i + 1] > Restarts[i] + 1 => IsSlashSlash(Restarts[i])
  /\ (ReturnedInRange /\ Result.Kind = "eof"
        /\ Buffer = <<43, 47, 47, 32, 120, 10>>) =>
       Tokens = << [Kind |-> "identifier", Start |-> 0, Length |-> 3],
                   [Kind |-> "identifier", Start |-> 4, Length |-> 1],
                   [Kind |-> "eof", Start |-> 6, Length |-> 1] >>
  /\ (ReturnedInRange /\ Result.Kind = "eof" /\ Buffer = <<61, 47, 47, 97>>) =>
       Tokens = << [Kind |-> "identifier", Start |-> 0, Length |-> 3],
                   [Kind |-> "identifier", Start |-> 3, Length |-> 1],
                   [Kind |-> "eof", Start |-> 4, Length |-> 1] >>

\* "+// x\n": the second call has returned the x behind the slashes
C20_Witness ==
  /\ ReturnedInRange
  /\ Buffer = <<43, 47, 47, 32, 120, 10>>
  /\ Len(Tokens) = 2
  /\ TokText(Tokens[1]) = <<43, 47, 47>>
  /\ TokText(Tokens[2]) = <<120>>
  /\ Diags = <<>>

====
